---- MODULE Spec2Model ----
(***************************************************************************)
(* Activities resource service (src/src/lib/activitiesService.ts.new) over *)
(* the storage gateway: a record table "activities" and a blob bucket      *)
(* "activities".  Every service call is a process that performs its       *)
(* gateway requests one await at a time; each request may succeed or fail. *)
(*                                                                         *)
(* Strings that the code inspects (image references, file names, URLs) are *)
(* sequences of tokens; "/", "?" and "." are tokens of their own, so that  *)
(* includes(), split()[0] and split().pop() are computed, not assumed.     *)
(*                                                                         *)
(* The Gallery admin view (src/src/pages/Admin/Gallery.tsx) is modelled    *)
(* over the gallery table: its component state and the handler invocations *)
(* that are awaiting a request of galleryService.  The Events and the       *)
(* Activities admin views (src/src/pages/Admin/Events.tsx.bak) are modelled *)
(* the same way over the record table of the page's resource.              *)
(***************************************************************************)
EXTENDS Integers, Sequences, FiniteSets, TLC

\* the activities table and bucket, the store's and the generator's counters,
\* the calls in flight, the number of writing calls issued so far, and the ids
\* whose rows deleteActivity has deleted
VARIABLES rows, blobs, nextId, nextUuid, call, issued, deleted

\* the gallery table, and the Gallery admin view with its running handlers
VARIABLES galleryTable, galleryNextId, gallery, handlers

\* the admin page that is open, the record table of the Events or Activities
\* page, and that page's view with its running handlers
VARIABLES page, recordTable, recordNextId, admin, adminHandlers

serviceVars == <<rows, blobs, nextId, nextUuid, call, issued, deleted>>
viewVars == <<galleryTable, galleryNextId, gallery, handlers>>
adminVars == <<page, recordTable, recordNextId, admin, adminHandlers>>
vars == <<serviceVars, viewVars, adminVars>>

(* ------------------------------ bounds ---------------------------------- *)

\* create, update and delete calls a run issues (list and get are not counted)
MaxCalls == 2

\* callers of the service; the sequential specification uses the first only
Procs == {1, 2}
SeqProcs == {1}

\* images the gallery holds over a run: those the Gallery view is opened on
\* and those the editor uploads
MaxImages == 3

\* records the table of the Events or Activities page holds over a run: the
\* page is opened on all but one of them, and the editor creates the last
MaxRecords == 2

ImageIds == 1..MaxImages
RecordIds == 1..MaxRecords

\* handlers of the Gallery view that are awaiting a request at the same time;
\* an editor who waits for each action to finish uses the first only
Handlers == {1, 2}
SeqHandlers == {1}

(* ------------------------------ strings --------------------------------- *)

Undefined == <<"undefined">>
Null == <<"null">>
Empty == <<>>

\* JavaScript truthiness of an optional string
Falsy(s) == s \in {Undefined, Null, Empty}

\* s.includes(t) for a one-token needle
Includes(s, t) == \E i \in 1..Len(s) : s[i] = t

\* s.split(t)[0]
SplitFirst(s, t) ==
  IF Includes(s, t)
    THEN SubSeq(s, 1, (CHOOSE i \in 1..Len(s) :
                         s[i] = t /\ \A j \in 1..(i - 1) : s[j] # t) - 1)
    ELSE s

\* s.split(t).pop()
SplitPop(s, t) ==
  IF Includes(s, t)
    THEN SubSeq(s, (CHOOSE i \in 1..Len(s) :
                      s[i] = t /\ \A j \in (i + 1)..Len(s) : s[j] # t) + 1, Len(s))
    ELSE s

BUCKET_NAME == "activities"

\* the one token of a URL that holds the substring 'supabase.co'
StoreHost == "proj.supabase.co"

\* what getPublicUrl prefixes to an object name
BaseUrl == <<"https:", "/", "/", StoreHost, "/", "storage", "/", "v1", "/",
             "object", "/", "public", "/", BUCKET_NAME, "/">>

\* a stale transformation parameter kept in a stored URL
StaleQuery == <<"?", "width=500">>

\* supabase.storage.from(BUCKET_NAME).getPublicUrl(filename).data.publicUrl
getDirectUrl(filename) == BaseUrl \o filename

\* (variant) the stored URL is returned with its query parameters
NormalizeReadKeepsQuery(image_path) ==
  IF Falsy(image_path) THEN image_path
  ELSE IF Includes(image_path, StoreHost) THEN image_path
  ELSE getDirectUrl(image_path)

\* the transform of getActivity on a stored image_path
NormalizeRead(image_path) ==
  IF Falsy(image_path) THEN image_path
  ELSE IF Includes(image_path, StoreHost) THEN SplitFirst(image_path, "?")
  ELSE getDirectUrl(image_path)

\* the transform of createActivity / updateActivity on the returned row
NormalizeWrite(image_path) ==
  IF Falsy(image_path) THEN image_path ELSE getDirectUrl(image_path)

\* the filename deleteActivity hands to remove()
DeleteFilename(image_path) ==
  IF Includes(image_path, "/")
    THEN (IF SplitPop(image_path, "/") # Empty
            THEN SplitPop(image_path, "/") ELSE image_path)
    ELSE image_path

(* ------------------------------ inputs ---------------------------------- *)

UuidTokens == <<"uuid1", "uuid2", "uuid3", "uuid4", "uuid5", "uuid6">>

\* (variant) the generator hands out a name it has handed out before
uuidv4Repeats(k) == UuidTokens[1]

\* uuidv4(): a name never generated before
uuidv4(k) == UuidTokens[k]

Files ==
  { [name |-> <<"spring", ".", "fair", ".", "jpg">>, type |-> "image/jpeg", body |-> "b1"] }

\* `${uuidv4()}.${fileExt}` with fileExt = imageFile.name.split('.').pop()
NewFilePath(k, imageFile) == <<uuidv4(k), ".">> \o SplitPop(imageFile.name, ".")

Absent == "<absent>"
DisplayTargets == {"home", "activities", "both"}

\* an omitted property of the fields object, or the omitted imageFile
NoFields ==
  [title |-> Absent, description |-> Absent, display_on |-> Absent,
   image_path |-> Undefined]

\* field sets a caller submits to createActivity (image_path is drawn apart)
CreateFields ==
  { [NoFields EXCEPT !.title = "Book Club", !.description = "Weekly meetup",
                     !.display_on = d] : d \in DisplayTargets }

\* partial field sets a caller submits to updateActivity
UpdateFields ==
  { NoFields,
    [NoFields EXCEPT !.title = "Choir"],
    [NoFields EXCEPT !.display_on = "home"] }

\* the object uploaded before this version of the service, and the forms in
\* which a row may still name it
LegacyName == <<"legacy", ".", "jpg">>
LegacyRefs == {LegacyName, BaseUrl \o LegacyName, BaseUrl \o LegacyName \o StaleQuery}

\* the legacy row has id 1, the store numbers the rows it inserts from 2
Ids == 1..(MaxCalls + 1)

IdleCall ==
  [op |-> "idle", pc |-> "idle", id |-> 0, displayOn |-> Absent,
   fields |-> NoFields,
   imageFile |-> {}, filePath |-> Undefined, filename |-> Undefined,
   ret |-> {}, err |-> "", log |-> <<>>, preRows |-> <<>>, preBlobs |-> <<>>,
   after |-> {}, found |-> <<>>]

\* a handler slot of the Gallery view with no invocation in it; images and
\* selectedImages are the values the invocation's closure has captured
IdleHandler ==
  [kind |-> "idle", pc |-> "idle", images |-> {}, selectedImages |-> <<>>,
   id |-> 0, cur |-> 0, log |-> <<>>, alert |-> FALSE]

\* the useState initial values of GalleryAdmin
GalleryState ==
  [images |-> {}, isLoading |-> TRUE, error |-> FALSE, isUploading |-> FALSE,
   uploadError |-> FALSE, uploadSuccess |-> FALSE, selectedImages |-> <<>>]

\* a message state that holds null
NoMessage == "<null>"

\* the text of a filled form field; an empty field holds ""
Text == "text"

\* the useState initial values of EventsAdmin and of ActivitiesAdmin, which
\* has no date, time and venue: they stay empty there.  previewUrl, the
\* preview of the image, is left out: it is rendered and never read
AdminState ==
  [records |-> {}, isLoading |-> TRUE, error |-> NoMessage, isSubmitting |-> FALSE,
   successMessage |-> NoMessage, editRecord |-> 0, isCreating |-> FALSE,
   title |-> "", date |-> "", time |-> "", venue |-> "", description |-> "",
   displayOn |-> "both", imageFile |-> FALSE]

\* a handler of the Events or Activities view that is not running
IdleAdminHandler ==
  [kind |-> "idle", pc |-> "idle", id |-> 0, records |-> {}, failed |-> FALSE]

(* ------------------------------- state ---------------------------------- *)

LegacyRow(ref) ==
  [id |-> 1, title |-> "Choir", description |-> "Weekly meetup",
   display_on |-> "activities", image_path |-> ref]

Init ==
  /\ \/ /\ rows = <<>>
        /\ blobs = <<>>
     \/ \E ref \in LegacyRefs :
          /\ rows = (1 :> LegacyRow(ref))
          /\ blobs = (LegacyName :> "b0")
  /\ nextId = 2
  /\ nextUuid = 1
  /\ call = [p \in Procs |-> IdleCall]
  /\ issued = 0
  /\ deleted = {}
  /\ galleryTable = {}
  /\ galleryNextId = 1
  /\ gallery = GalleryState
  /\ handlers = [h \in Handlers |-> IdleHandler]
  /\ page = "none"
  /\ recordTable = {}
  /\ recordNextId = 1
  /\ admin = AdminState
  /\ adminHandlers = [h \in Handlers |-> IdleAdminHandler]

(* --------------------------- storage gateway ---------------------------- *)

HasRow(id) == id \in DOMAIN rows

\* storage.upload(name, file, {upsert: false}): refuses an existing name
UploadStore(name, imageFile) ==
  IF name \in DOMAIN blobs THEN blobs ELSE (name :> imageFile.body) @@ blobs

\* storage.remove([name]): removing a missing object is not an error
RemoveStore(name) == [n \in (DOMAIN blobs) \ {name} |-> blobs[n]]

\* (variant) the display target is not sent and the column takes 'both'
InsertedRowDefaultTarget(id, values) ==
  [id |-> id,
   title |-> values.title,
   description |-> values.description,
   display_on |-> "both",
   image_path |-> IF values.image_path = Undefined THEN Null ELSE values.image_path]

\* the row a table insert stores for a values object: an undefined property is
\* not sent, and the column takes its default
InsertedRow(id, values) ==
  [id |-> id,
   title |-> values.title,
   description |-> values.description,
   display_on |-> values.display_on,
   image_path |-> IF values.image_path = Undefined THEN Null ELSE values.image_path]

\* (variant) an undefined image_path is sent as null
PatchedRowNullsImage(row, values) ==
  [id |-> row.id,
   title |-> IF values.title = Absent THEN row.title ELSE values.title,
   description |-> IF values.description = Absent
                     THEN row.description ELSE values.description,
   display_on |-> IF values.display_on = Absent
                    THEN row.display_on ELSE values.display_on,
   image_path |-> IF values.image_path = Undefined THEN Null ELSE values.image_path]

\* (variant) the public URL of the image is stored in place of its name
PatchedRowStoresUrl(row, values) ==
  [id |-> row.id,
   title |-> IF values.title = Absent THEN row.title ELSE values.title,
   description |-> IF values.description = Absent
                     THEN row.description ELSE values.description,
   display_on |-> IF values.display_on = Absent
                    THEN row.display_on ELSE values.display_on,
   image_path |-> IF values.image_path = Undefined
                    THEN row.image_path ELSE getDirectUrl(values.image_path)]

\* the row a table update leaves for a values object: undefined properties
\* are not sent and their columns keep their values
PatchedRow(row, values) ==
  [id |-> row.id,
   title |-> IF values.title = Absent THEN row.title ELSE values.title,
   description |-> IF values.description = Absent
                     THEN row.description ELSE values.description,
   display_on |-> IF values.display_on = Absent
                    THEN row.display_on ELSE values.display_on,
   image_path |-> IF values.image_path = Undefined
                    THEN row.image_path ELSE values.image_path]

DeleteRowStore(id) == [i \in (DOMAIN rows) \ {id} |-> rows[i]]

(* ------------------------------ the service ---------------------------- *)

NoFile == {}
ImageFiles == {NoFile} \cup {{f} : f \in Files}
TheFile(c) == CHOOSE f \in c.imageFile : TRUE

Logged(c, step) == Append(c.log, step)

\* image references a caller may pass in the fields of createActivity
CreateRefs == {Undefined, BaseUrl \o LegacyName \o StaleQuery}

\* image references a caller may pass in the fields of updateActivity: none,
\* or the one it knows the row by (as stored, or as a read returns it)
UpdateRefs(id) ==
  {Undefined}
    \cup (IF HasRow(id) /\ ~Falsy(rows[id].image_path)
           THEN {rows[id].image_path, NormalizeRead(rows[id].image_path)}
           ELSE {})

\* (variant) the filter without its 'both' alternative
SelectedExact(displayOn) ==
  { i \in DOMAIN rows : displayOn = Absent \/ rows[i].display_on = displayOn }

\* the rows the query of getActivities selects
Selected(displayOn) ==
  { i \in DOMAIN rows :
      displayOn = Absent \/ rows[i].display_on = displayOn
                        \/ rows[i].display_on = "both" }

\* the record getActivities returns for a selected row
ListResult(row) ==
  IF Falsy(row.image_path) THEN row
  ELSE IF Includes(row.image_path, StoreHost)
    THEN [row EXCEPT !.image_path = SplitFirst(@, "?")]
  ELSE [row EXCEPT !.image_path = getDirectUrl(@)]

getActivities(p) ==
  /\ call[p].op = "idle"
  /\ \E displayOn \in DisplayTargets \cup {Absent}, ok \in BOOLEAN :
       call' = [call EXCEPT ![p] =
                  [IdleCall EXCEPT
                     !.op = "list", !.pc = "done", !.displayOn = displayOn,
                     !.log = <<"select">>,
                     !.err = IF ok THEN "" ELSE "query",
                     !.ret = IF ok
                               THEN { ListResult(rows[i]) : i \in Selected(displayOn) }
                               ELSE {}]]
  /\ UNCHANGED <<rows, blobs, nextId, nextUuid, issued, deleted, viewVars, adminVars>>

\* the record getActivity returns for a row
GetResult(row) == [row EXCEPT !.image_path = NormalizeRead(@)]

getActivity(p) ==
  /\ call[p].op = "idle"
  /\ \E id \in Ids, ok \in BOOLEAN :
       call' = [call EXCEPT ![p] =
                  [IdleCall EXCEPT
                     !.op = "get", !.pc = "done", !.id = id,
                     !.log = <<"select">>,
                     !.err = IF ~ok THEN "query"
                             ELSE IF ~HasRow(id) THEN "norow" ELSE "",
                     !.ret = IF ok /\ HasRow(id)
                               THEN {GetResult(rows[id])}
                               ELSE {}]]
  /\ UNCHANGED <<rows, blobs, nextId, nextUuid, issued, deleted, viewVars, adminVars>>

\* createActivity up to its first await
createActivity(p) ==
  /\ call[p].op = "idle"
  /\ issued < MaxCalls /\ issued' = issued + 1
  /\ \E activity \in CreateFields, ref \in CreateRefs, imageFile \in ImageFiles :
       /\ call' = [call EXCEPT ![p] =
                     [IdleCall EXCEPT
                        !.op = "create",
                        !.fields = [activity EXCEPT !.image_path = ref],
                        !.imageFile = imageFile,
                        !.filePath = IF imageFile # NoFile
                                       THEN NewFilePath(nextUuid, CHOOSE f \in imageFile : TRUE)
                                       ELSE ref,
                        !.pc = IF imageFile # NoFile THEN "c_upload" ELSE "c_insert",
                        !.preRows = rows, !.preBlobs = blobs]]
       /\ nextUuid' = IF imageFile # NoFile THEN nextUuid + 1 ELSE nextUuid
  /\ UNCHANGED <<rows, blobs, nextId, deleted, viewVars, adminVars>>

createUpload(p) ==
  /\ call[p].pc = "c_upload"
  /\ \E ok \in BOOLEAN :
       LET c == call[p]
           stored == ok /\ c.filePath \notin DOMAIN blobs IN
       /\ blobs' = IF stored THEN UploadStore(c.filePath, TheFile(c)) ELSE blobs
       /\ call' = [call EXCEPT ![p] =
                     IF stored
                       THEN [c EXCEPT !.pc = "c_insert", !.log = Logged(c, "upload")]
                       ELSE [c EXCEPT !.pc = "done", !.err = "upload",
                                      !.log = Logged(c, "upload failed")]]
  /\ UNCHANGED <<rows, nextId, nextUuid, issued, deleted, viewVars, adminVars>>

\* (variant) a failed insert removes the object the call has uploaded
createInsertCleansUp(p) ==
  /\ call[p].pc = "c_insert"
  /\ \E ok \in BOOLEAN :
       LET c == call[p]
           stored == ok
           data == InsertedRow(nextId, [c.fields EXCEPT !.image_path = c.filePath]) IN
       /\ rows' = IF stored THEN (nextId :> data) @@ rows ELSE rows
       /\ nextId' = IF stored THEN nextId + 1 ELSE nextId
       /\ blobs' = IF ~stored /\ c.imageFile # NoFile
                     THEN RemoveStore(c.filePath) ELSE blobs
       /\ call' = [call EXCEPT ![p] =
                     IF stored
                       THEN [c EXCEPT !.pc = "done", !.id = data.id,
                                      !.log = Logged(c, "insert"),
                                      !.ret = {[data EXCEPT
                                                  !.image_path = NormalizeWrite(@)]}]
                       ELSE [c EXCEPT !.pc = "done", !.err = "query",
                                      !.log = Logged(c, "insert failed")]]
  /\ UNCHANGED <<nextUuid, issued, deleted, viewVars, adminVars>>

createInsert(p) ==
  /\ call[p].pc = "c_insert"
  /\ \E ok \in BOOLEAN :
       LET c == call[p]
           stored == ok
           data == InsertedRow(nextId, [c.fields EXCEPT !.image_path = c.filePath]) IN
       /\ rows' = IF stored THEN (nextId :> data) @@ rows ELSE rows
       /\ nextId' = IF stored THEN nextId + 1 ELSE nextId
       /\ call' = [call EXCEPT ![p] =
                     IF stored
                       THEN [c EXCEPT !.pc = "done", !.id = data.id,
                                      !.log = Logged(c, "insert"),
                                      !.ret = {[data EXCEPT
                                                  !.image_path = NormalizeWrite(@)]}]
                       ELSE [c EXCEPT !.pc = "done", !.err = "query",
                                      !.log = Logged(c, "insert failed")]]
  /\ UNCHANGED <<blobs, nextUuid, issued, deleted, viewVars, adminVars>>

\* updateActivity up to its first await
updateActivity(p) ==
  /\ call[p].op = "idle"
  /\ issued < MaxCalls /\ issued' = issued + 1
  /\ \E id \in Ids, fields \in UpdateFields, imageFile \in ImageFiles :
     \E ref \in UpdateRefs(id) :
       /\ call' = [call EXCEPT ![p] =
                     [IdleCall EXCEPT
                        !.op = "update", !.id = id,
                        !.fields = [fields EXCEPT !.image_path = ref],
                        !.imageFile = imageFile,
                        !.filePath = IF imageFile # NoFile
                                       THEN NewFilePath(nextUuid, CHOOSE f \in imageFile : TRUE)
                                       ELSE ref,
                        !.pc = IF imageFile # NoFile THEN "u_upload" ELSE "u_row",
                        !.preRows = rows, !.preBlobs = blobs]]
       /\ nextUuid' = IF imageFile # NoFile THEN nextUuid + 1 ELSE nextUuid
  /\ UNCHANGED <<rows, blobs, nextId, deleted, viewVars, adminVars>>

\* where updateActivity goes once its upload has succeeded
AfterUpdateUpload(c) ==
  IF ~Falsy(c.fields.image_path) THEN "u_remove" ELSE "u_row"

\* (variant) the upload error is not thrown
updateUploadNoThrow(p) ==
  /\ call[p].pc = "u_upload"
  /\ \E ok \in BOOLEAN :
       LET c == call[p]
           stored == ok /\ c.filePath \notin DOMAIN blobs IN
       /\ blobs' = IF stored THEN UploadStore(c.filePath, TheFile(c)) ELSE blobs
       /\ call' = [call EXCEPT ![p] =
                     [c EXCEPT !.pc = AfterUpdateUpload(c),
                               !.log = Logged(c, IF stored THEN "upload"
                                                          ELSE "upload failed")]]
  /\ UNCHANGED <<rows, nextId, nextUuid, issued, deleted, viewVars, adminVars>>

updateUpload(p) ==
  /\ call[p].pc = "u_upload"
  /\ \E ok \in BOOLEAN :
       LET c == call[p]
           stored == ok /\ c.filePath \notin DOMAIN blobs IN
       /\ blobs' = IF stored THEN UploadStore(c.filePath, TheFile(c)) ELSE blobs
       /\ call' = [call EXCEPT ![p] =
                     IF stored
                       THEN [c EXCEPT !.pc = AfterUpdateUpload(c),
                                      !.log = Logged(c, "upload")]
                       ELSE [c EXCEPT !.pc = "done", !.err = "upload",
                                      !.log = Logged(c, "upload failed")]]
  /\ UNCHANGED <<rows, nextId, nextUuid, issued, deleted, viewVars, adminVars>>

\* (variant) a failed removal of the previous image is thrown
updateRemoveThrows(p) ==
  /\ call[p].pc = "u_remove"
  /\ \E ok \in BOOLEAN :
       LET c == call[p] IN
       /\ blobs' = IF ok THEN RemoveStore(c.fields.image_path) ELSE blobs
       /\ call' = [call EXCEPT ![p] =
                     IF ok
                       THEN [c EXCEPT !.pc = "u_row", !.log = Logged(c, "remove")]
                       ELSE [c EXCEPT !.pc = "done", !.err = "storage",
                                      !.log = Logged(c, "remove failed")]]
  /\ UNCHANGED <<rows, nextId, nextUuid, issued, deleted, viewVars, adminVars>>

\* the remove of the previous image; its result is not looked at
updateRemove(p) ==
  /\ call[p].pc = "u_remove"
  /\ \E ok \in BOOLEAN :
       LET c == call[p] IN
       /\ blobs' = IF ok THEN RemoveStore(c.fields.image_path) ELSE blobs
       /\ call' = [call EXCEPT ![p] =
                     [c EXCEPT !.pc = "u_row",
                               !.log = Logged(c, IF ok THEN "remove"
                                                       ELSE "remove failed")]]
  /\ UNCHANGED <<rows, nextId, nextUuid, issued, deleted, viewVars, adminVars>>

\* the row a call is about, as it was when the call was issued
HadRow(c) == c.id \in DOMAIN c.preRows
PreRow(c) == c.preRows[c.id]

\* the callers whose update of the same row was stored before p's and has not
\* yet returned
WrittenBefore(p) ==
  { q \in Procs \ {p} :
      /\ call[q].op = "update" /\ call[q].id = call[p].id
      /\ call[q].pc = "done" /\ call[q].err = "" }

\* (variant) the row update is refused when the row has changed since the
\* call was issued
updateRowDetectsConflict(p) ==
  /\ call[p].pc = "u_row"
  /\ \E ok \in BOOLEAN :
       LET c == call[p]
           conflict == HasRow(c.id) /\ HadRow(c) /\ rows[c.id] # PreRow(c)
           stored == ok /\ HasRow(c.id) /\ ~conflict
           data == PatchedRow(rows[c.id], [c.fields EXCEPT !.image_path = c.filePath]) IN
       /\ rows' = IF stored THEN [rows EXCEPT ![c.id] = data] ELSE rows
       /\ call' = [call EXCEPT ![p] =
                     IF stored
                       THEN [c EXCEPT !.pc = "done",
                                      !.log = Logged(c, "update"),
                                      !.after = WrittenBefore(p),
                                      !.found = rows[c.id],
                                      !.ret = {[data EXCEPT
                                                  !.image_path = NormalizeWrite(@)]}]
                       ELSE [c EXCEPT !.pc = "done",
                                      !.err = IF ~ok THEN "query"
                                              ELSE IF conflict THEN "conflict"
                                              ELSE "norow",
                                      !.log = Logged(c, "update failed")]]
  /\ UNCHANGED <<blobs, nextId, nextUuid, issued, deleted, viewVars, adminVars>>

updateRow(p) ==
  /\ call[p].pc = "u_row"
  /\ \E ok \in BOOLEAN :
       LET c == call[p]
           stored == ok /\ HasRow(c.id)
           data == PatchedRow(rows[c.id], [c.fields EXCEPT !.image_path = c.filePath]) IN
       /\ rows' = IF stored THEN [rows EXCEPT ![c.id] = data] ELSE rows
       /\ call' = [call EXCEPT ![p] =
                     IF stored
                       THEN [c EXCEPT !.pc = "done",
                                      !.log = Logged(c, "update"),
                                      !.after = WrittenBefore(p),
                                      !.found = rows[c.id],
                                      !.ret = {[data EXCEPT
                                                  !.image_path = NormalizeWrite(@)]}]
                       ELSE [c EXCEPT !.pc = "done",
                                      !.err = IF ok THEN "norow" ELSE "query",
                                      !.log = Logged(c, "update failed")]]
  /\ UNCHANGED <<blobs, nextId, nextUuid, issued, deleted, viewVars, adminVars>>

\* deleteActivity up to its first await
deleteActivity(p) ==
  /\ call[p].op = "idle"
  /\ issued < MaxCalls /\ issued' = issued + 1
  /\ \E id \in Ids :
       call' = [call EXCEPT ![p] =
                  [IdleCall EXCEPT
                     !.op = "delete", !.id = id, !.pc = "d_select",
                     !.preRows = rows, !.preBlobs = blobs]]
  /\ UNCHANGED <<rows, blobs, nextId, nextUuid, deleted, viewVars, adminVars>>

\* (variant) the lookup does not throw when no row matches
deleteSelectIgnoresMissing(p) ==
  /\ call[p].pc = "d_select"
  /\ \E ok \in BOOLEAN :
       LET c == call[p]
           image_path == IF HasRow(c.id) THEN rows[c.id].image_path ELSE Undefined IN
       call' = [call EXCEPT ![p] =
                  IF ~ok
                    THEN [c EXCEPT !.pc = "done", !.err = "query",
                                   !.log = Logged(c, "select failed")]
                  ELSE IF Falsy(image_path)
                    THEN [c EXCEPT !.pc = "d_row", !.log = Logged(c, "select")]
                  ELSE [c EXCEPT !.pc = "d_remove", !.log = Logged(c, "select"),
                                 !.filename = DeleteFilename(image_path)]]
  /\ UNCHANGED <<rows, blobs, nextId, nextUuid, issued, deleted, viewVars, adminVars>>

deleteSelect(p) ==
  /\ call[p].pc = "d_select"
  /\ \E ok \in BOOLEAN :
       LET c == call[p]
           found == ok /\ HasRow(c.id)
           image_path == rows[c.id].image_path IN
       call' = [call EXCEPT ![p] =
                  IF ~found
                    THEN [c EXCEPT !.pc = "done",
                                   !.err = IF ok THEN "norow" ELSE "query",
                                   !.log = Logged(c, "select failed")]
                  ELSE IF Falsy(image_path)
                    THEN [c EXCEPT !.pc = "d_row", !.log = Logged(c, "select")]
                  ELSE [c EXCEPT !.pc = "d_remove", !.log = Logged(c, "select"),
                                 !.filename = DeleteFilename(image_path)]]
  /\ UNCHANGED <<rows, blobs, nextId, nextUuid, issued, deleted, viewVars, adminVars>>

\* (variant) a failed removal is ignored and the row deletion follows
deleteRemoveIgnoresError(p) ==
  /\ call[p].pc = "d_remove"
  /\ \E ok \in BOOLEAN :
       LET c == call[p] IN
       /\ blobs' = IF ok THEN RemoveStore(c.filename) ELSE blobs
       /\ call' = [call EXCEPT ![p] =
                     [c EXCEPT !.pc = "d_row",
                               !.log = Logged(c, IF ok THEN "remove"
                                                       ELSE "remove failed")]]
  /\ UNCHANGED <<rows, nextId, nextUuid, issued, deleted, viewVars, adminVars>>

deleteRemove(p) ==
  /\ call[p].pc = "d_remove"
  /\ \E ok \in BOOLEAN :
       LET c == call[p] IN
       /\ blobs' = IF ok THEN RemoveStore(c.filename) ELSE blobs
       /\ call' = [call EXCEPT ![p] =
                     IF ok
                       THEN [c EXCEPT !.pc = "d_row", !.log = Logged(c, "remove")]
                       ELSE [c EXCEPT !.pc = "done", !.err = "storage",
                                      !.log = Logged(c, "remove failed")]]
  /\ UNCHANGED <<rows, nextId, nextUuid, issued, deleted, viewVars, adminVars>>

deleteRow(p) ==
  /\ call[p].pc = "d_row"
  /\ \E ok \in BOOLEAN :
       LET c == call[p] IN
       /\ rows' = IF ok THEN DeleteRowStore(c.id) ELSE rows
       /\ deleted' = IF ok THEN deleted \cup {c.id} ELSE deleted
       /\ call' = [call EXCEPT ![p] =
                     IF ok
                       THEN [c EXCEPT !.pc = "done", !.log = Logged(c, "delete")]
                       ELSE [c EXCEPT !.pc = "done", !.err = "query",
                                      !.log = Logged(c, "delete failed")]]
  /\ UNCHANGED <<blobs, nextId, nextUuid, issued, viewVars, adminVars>>

\* the promise settles and the caller may issue its next call
Return(p) ==
  /\ call[p].pc = "done"
  /\ call' = [q \in Procs |->
                IF q = p THEN IdleCall ELSE [call[q] EXCEPT !.after = @ \ {p}]]
  /\ UNCHANGED <<rows, blobs, nextId, nextUuid, issued, deleted, viewVars, adminVars>>

Step(p) ==
  \/ getActivities(p) \/ getActivity(p)
  \/ createActivity(p) \/ createUpload(p) \/ createInsert(p)
  \/ updateActivity(p) \/ updateUpload(p) \/ updateRemove(p) \/ updateRow(p)
  \/ deleteActivity(p) \/ deleteSelect(p) \/ deleteRemove(p) \/ deleteRow(p)
  \/ Return(p)

\* one caller, one call at a time
Next == \E p \in SeqProcs : Step(p)

Spec == Init /\ [][Next]_vars

\* two admins who edit records at the same time: the gateway steps of their
\* updateActivity calls interleave
\* updateActivity(editActivity.id, ...): the record is one of the list
editUpdate(p) == updateActivity(p) /\ HasRow(call'[p].id)

ConcurrentNext ==
  \E p \in Procs :
    \/ editUpdate(p) \/ updateUpload(p) \/ updateRemove(p) \/ updateRow(p)
    \/ Return(p)

ConcurrentSpec == Init /\ [][ConcurrentNext]_vars

(* ------------------------- Gallery admin view --------------------------- *)
(* src/src/pages/Admin/Gallery.tsx over galleryService.  A handler that has *)
(* reached an await occupies a slot of `handlers` with the images and       *)
(* selectedImages its closure captured when the view was last rendered.     *)

\* galleryService.getGalleryImages(): the records of the gallery table
getGalleryImages == galleryTable

\* galleryService.uploadGalleryImage(): a record under an id the store generates
uploadGalleryImage == galleryTable \cup {galleryNextId}

\* galleryService.deleteGalleryImage(id): the record is deleted
deleteGalleryImage(id) == galleryTable \ {id}

\* selectedImages.includes(id)
IsSelected(selected, id) == \E i \in 1..Len(selected) : selected[i] = id

\* selectedImages.filter(imgId => imgId !== id)
Unselect(selected, id) == SelectSeq(selected, LAMBDA x : x # id)

\* the slot taken by the next handler to reach an await
FreeSlot(h) ==
  /\ handlers[h].kind = "idle"
  /\ \A g \in Handlers : g < h => handlers[g].kind # "idle"

\* the image grid is rendered, with its tiles and trash buttons
GridShown ==
  /\ page = "gallery"
  /\ ~gallery.isLoading /\ ~gallery.error /\ gallery.images # {}

\* an entry of a handler's record of its deleteGalleryImage calls
Started(id) == <<"start", id>>
Deleted(id) == <<"deleted", id>>
Failed(id) == <<"failed", id>>

GalleryInit ==
  /\ rows = <<>> /\ blobs = <<>>
  /\ nextId = 2 /\ nextUuid = 1
  /\ call = [p \in Procs |-> IdleCall]
  /\ issued = 0 /\ deleted = {}
  /\ galleryTable = 1..(MaxImages - 1)
  /\ galleryNextId = MaxImages
  /\ gallery = GalleryState
  /\ handlers = [h \in Handlers |->
                   IF h = 1 THEN [IdleHandler EXCEPT !.kind = "load", !.pc = "load"]
                            ELSE IdleHandler]
  /\ page = "gallery"
  /\ recordTable = {}
  /\ recordNextId = 1
  /\ admin = AdminState
  /\ adminHandlers = [h \in Handlers |-> IdleAdminHandler]

\* loadImages from its await on: the mount effect's call, or handleFileUpload's
\* call with the finally of handleFileUpload behind it
loadImagesReturn(h) ==
  /\ handlers[h].pc = "load"
  /\ \E ok \in BOOLEAN :
       gallery' = [gallery EXCEPT
                     !.images = IF ok THEN getGalleryImages ELSE @,
                     !.error = ~ok,
                     !.isLoading = FALSE,
                     !.isUploading = IF handlers[h].kind = "upload" THEN FALSE ELSE @]
  /\ handlers' = [handlers EXCEPT ![h].pc = "done"]
  /\ UNCHANGED <<galleryTable, galleryNextId, serviceVars, adminVars>>

\* handleFileUpload up to its await of uploadGalleryImage
handleFileUpload(h) ==
  /\ page = "gallery"
  /\ FreeSlot(h)
  /\ galleryNextId + Cardinality({g \in Handlers : handlers[g].pc = "upload"})
       <= MaxImages
  /\ gallery' = [gallery EXCEPT !.isUploading = TRUE, !.uploadError = FALSE,
                                !.uploadSuccess = FALSE]
  /\ handlers' = [handlers EXCEPT ![h] =
                    [IdleHandler EXCEPT !.kind = "upload", !.pc = "upload"]]
  /\ UNCHANGED <<galleryTable, galleryNextId, serviceVars, adminVars>>

\* handleFileUpload from the upload's result to its await inside loadImages
uploadReturn(h) ==
  /\ handlers[h].pc = "upload"
  /\ \E ok \in BOOLEAN :
       /\ galleryTable' = IF ok THEN uploadGalleryImage ELSE galleryTable
       /\ galleryNextId' = IF ok THEN galleryNextId + 1 ELSE galleryNextId
       /\ gallery' = IF ok
                       THEN [gallery EXCEPT !.uploadSuccess = TRUE,
                                            !.isLoading = TRUE, !.error = FALSE]
                       ELSE [gallery EXCEPT !.uploadError = TRUE,
                                            !.isUploading = FALSE]
       /\ handlers' = [handlers EXCEPT ![h].pc = IF ok THEN "load" ELSE "done"]
  /\ UNCHANGED <<serviceVars, adminVars>>

\* toggleSelection(image.id), the click on a tile
toggleSelection(id) ==
  /\ GridShown /\ id \in gallery.images
  /\ gallery' = [gallery EXCEPT
                   !.selectedImages = IF IsSelected(@, id) THEN Unselect(@, id)
                                                           ELSE Append(@, id)]
  /\ UNCHANGED <<galleryTable, galleryNextId, handlers, serviceVars, adminVars>>

\* handleDelete(image.id), the click on a trash button, confirmed, up to its
\* await of deleteGalleryImage
handleDelete(h, id) ==
  /\ FreeSlot(h)
  /\ GridShown /\ id \in gallery.images
  /\ handlers' = [handlers EXCEPT ![h] =
                    [IdleHandler EXCEPT !.kind = "delete", !.pc = "delete",
                                        !.images = gallery.images,
                                        !.selectedImages = gallery.selectedImages,
                                        !.id = id, !.log = <<Started(id)>>]]
  /\ UNCHANGED <<galleryTable, galleryNextId, gallery, serviceVars, adminVars>>

\* handleDelete from the result of deleteGalleryImage on
deleteReturn(h) ==
  /\ handlers[h].pc = "delete"
  /\ \E ok \in BOOLEAN :
       LET hd == handlers[h]
           gone == ok /\ hd.id \in galleryTable IN
       /\ galleryTable' = IF gone THEN deleteGalleryImage(hd.id) ELSE galleryTable
       /\ gallery' = IF gone
                       THEN [gallery EXCEPT
                               !.images = hd.images \ {hd.id},
                               !.selectedImages = Unselect(hd.selectedImages, hd.id)]
                       ELSE gallery
       /\ handlers' = [handlers EXCEPT ![h] =
                         [hd EXCEPT !.pc = "done",
                                    !.alert = ~gone,
                                    !.log = Append(@, IF gone THEN Deleted(hd.id)
                                                              ELSE Failed(hd.id))]]
  /\ UNCHANGED <<galleryNextId, serviceVars, adminVars>>

\* handleBulkDelete, the click on "Delete Selected", confirmed, up to its
\* await of the first deleteGalleryImage
handleBulkDelete(h) ==
  /\ page = "gallery"
  /\ FreeSlot(h)
  /\ Len(gallery.selectedImages) > 0
  /\ handlers' = [handlers EXCEPT ![h] =
                    [IdleHandler EXCEPT !.kind = "bulk", !.pc = "bulk",
                                        !.images = gallery.images,
                                        !.selectedImages = gallery.selectedImages,
                                        !.id = gallery.selectedImages[1], !.cur = 1,
                                        !.log = <<Started(gallery.selectedImages[1])>>]]
  /\ UNCHANGED <<galleryTable, galleryNextId, gallery, serviceVars, adminVars>>

\* (variant) a failed deletion is skipped and the loop goes on
bulkDeleteReturnSkipsFailure(h) ==
  /\ handlers[h].pc = "bulk"
  /\ \E ok \in BOOLEAN :
       LET hd == handlers[h]
           gone == ok /\ hd.id \in galleryTable
           last == hd.cur = Len(hd.selectedImages)
           outcome == IF gone THEN Deleted(hd.id) ELSE Failed(hd.id) IN
       /\ galleryTable' = IF gone THEN deleteGalleryImage(hd.id) ELSE galleryTable
       /\ gallery' = IF last
                       THEN [gallery EXCEPT
                               !.images = { i \in hd.images :
                                              ~IsSelected(hd.selectedImages, i) },
                               !.selectedImages = <<>>]
                       ELSE gallery
       /\ handlers' = [handlers EXCEPT ![h] =
                         IF last
                           THEN [hd EXCEPT !.pc = "done", !.log = Append(@, outcome)]
                           ELSE [hd EXCEPT
                                   !.cur = @ + 1,
                                   !.id = hd.selectedImages[hd.cur + 1],
                                   !.log = @ \o <<outcome,
                                             Started(hd.selectedImages[hd.cur + 1])>>]]
  /\ UNCHANGED <<galleryNextId, serviceVars, adminVars>>

\* handleBulkDelete from the result of one deleteGalleryImage to the next
\* await, or to its end
bulkDeleteReturn(h) ==
  /\ handlers[h].pc = "bulk"
  /\ \E ok \in BOOLEAN :
       LET hd == handlers[h]
           gone == ok /\ hd.id \in galleryTable
           last == hd.cur = Len(hd.selectedImages) IN
       /\ galleryTable' = IF gone THEN deleteGalleryImage(hd.id) ELSE galleryTable
       /\ gallery' = IF gone /\ last
                       THEN [gallery EXCEPT
                               !.images = { i \in hd.images :
                                              ~IsSelected(hd.selectedImages, i) },
                               !.selectedImages = <<>>]
                       ELSE gallery
       /\ handlers' = [handlers EXCEPT ![h] =
                         IF ~gone
                           THEN [hd EXCEPT !.pc = "done", !.alert = TRUE,
                                           !.log = Append(@, Failed(hd.id))]
                         ELSE IF last
                           THEN [hd EXCEPT !.pc = "done",
                                           !.log = Append(@, Deleted(hd.id))]
                         ELSE [hd EXCEPT
                                 !.cur = @ + 1,
                                 !.id = hd.selectedImages[hd.cur + 1],
                                 !.log = @ \o <<Deleted(hd.id),
                                           Started(hd.selectedImages[hd.cur + 1])>>]]
  /\ UNCHANGED <<galleryNextId, serviceVars, adminVars>>

\* the handler has run to its end
Settle(h) ==
  /\ handlers[h].pc = "done"
  /\ handlers' = [handlers EXCEPT ![h] = IdleHandler]
  /\ UNCHANGED <<galleryTable, galleryNextId, gallery, serviceVars, adminVars>>

\* a handler's next step
HandlerStep(h) ==
  \/ loadImagesReturn(h)
  \/ handleFileUpload(h)
  \/ uploadReturn(h)
  \/ \E id \in ImageIds : handleDelete(h, id)
  \/ deleteReturn(h)
  \/ handleBulkDelete(h)
  \/ bulkDeleteReturn(h)
  \/ Settle(h)

\* the editor starts an action when the one before has run to its end
GalleryNext ==
  \/ \E h \in SeqHandlers : HandlerStep(h)
  \/ \E id \in ImageIds : toggleSelection(id)

GallerySpec == GalleryInit /\ [][GalleryNext]_vars

\* the editor uploads and deletes single images without waiting: every control
\* of the view stays enabled while a handler awaits its request
OverlapNext ==
  \E h \in Handlers :
    \/ loadImagesReturn(h)
    \/ handleFileUpload(h)
    \/ uploadReturn(h)
    \/ \E id \in ImageIds : handleDelete(h, id)
    \/ deleteReturn(h)
    \/ Settle(h)

\* the Gallery view opened on a gallery that leaves room for two uploads
OverlapInit ==
  /\ rows = <<>> /\ blobs = <<>>
  /\ nextId = 2 /\ nextUuid = 1
  /\ call = [p \in Procs |-> IdleCall]
  /\ issued = 0 /\ deleted = {}
  /\ galleryTable = 1..(MaxImages - 2)
  /\ galleryNextId = MaxImages - 1
  /\ gallery = GalleryState
  /\ handlers = [h \in Handlers |->
                   IF h = 1 THEN [IdleHandler EXCEPT !.kind = "load", !.pc = "load"]
                            ELSE IdleHandler]
  /\ page = "gallery"
  /\ recordTable = {}
  /\ recordNextId = 1
  /\ admin = AdminState
  /\ adminHandlers = [h \in Handlers |-> IdleAdminHandler]

GalleryOverlapSpec == OverlapInit /\ [][OverlapNext]_vars

(* ---------------------- Events and Activities views --------------------- *)
(* src/src/pages/Admin/Events.tsx.bak: EventsAdmin over eventsService and   *)
(* ActivitiesAdmin over activitiesService.  The two components have the     *)
(* same handlers; they differ in the form's fields and in what the list     *)
(* area renders while an error is set.  A service call is one request that  *)
(* succeeds or fails; a record is known by its id.                          *)

AdminOpen == page \in {"events", "activities"}

\* getEvents() / getActivities(): the records of the table
getRecords == recordTable

\* createEvent() / createActivity(): a record under an id the store generates
createRecord == recordTable \cup {recordNextId}

\* updateEvent() / updateActivity(): throws unless the record exists
RecordExists(id) == id \in recordTable

\* deleteEvent() / deleteActivity(): the record is deleted
deleteRecord(id) == recordTable \ {id}

\* the fields of the form the handleSubmit of the page requires
RequiredFields ==
  IF page = "events" THEN {"title", "date", "time", "venue", "description"}
                     ELSE {"title", "description"}

\* the values of the display_on select
DisplayChoices == {"home", "both"}

\* !title || !date || !time || !venue || !description, or !title || !description
MissingField(a) == \E f \in RequiredFields : a[f] = ""

\* resetForm()
ResetForm(a) ==
  [a EXCEPT !.title = "", !.date = "", !.time = "", !.venue = "",
            !.description = "", !.displayOn = "both", !.imageFile = FALSE,
            !.editRecord = 0, !.isCreating = FALSE]

\* the form is rendered / the list area and the "Add New" button are rendered
FormShown == AdminOpen /\ (admin.isCreating \/ admin.editRecord # 0)
ListAreaShown == AdminOpen /\ ~admin.isCreating /\ admin.editRecord = 0

\* the table of records is rendered, with its edit and delete buttons: the
\* list area of ActivitiesAdmin renders the error instead while one is set
TableShown ==
  /\ ListAreaShown
  /\ ~admin.isLoading
  /\ page = "activities" => admin.error = NoMessage
  /\ admin.records # {}

\* the slot taken by the next handler to reach an await
AdminFreeSlot(h) ==
  /\ adminHandlers[h].kind = "idle"
  /\ \A g \in Handlers : g < h => adminHandlers[g].kind # "idle"

\* no handler of the page is running: the editor fills the form in while
\* nothing is outstanding, and may use every other control at any time
AdminIdle == \A h \in Handlers : adminHandlers[h].kind = "idle"

\* createEvent / createActivity calls that are awaited
CreatesInFlight ==
  { g \in Handlers : adminHandlers[g].pc = "save" /\ adminHandlers[g].id = 0 }

\* the Events or the Activities page after mount: the initial state, and the
\* mount effect has called loadEvents / loadActivities
AdminInit ==
  /\ rows = <<>> /\ blobs = <<>>
  /\ nextId = 2 /\ nextUuid = 1
  /\ call = [p \in Procs |-> IdleCall]
  /\ issued = 0 /\ deleted = {}
  /\ galleryTable = {}
  /\ galleryNextId = 1
  /\ gallery = GalleryState
  /\ handlers = [h \in Handlers |-> IdleHandler]
  /\ page \in {"events", "activities"}
  /\ recordTable = 1..(MaxRecords - 1)
  /\ recordNextId = MaxRecords
  /\ admin = AdminState
  /\ adminHandlers = [h \in Handlers |->
                        IF h = 1 THEN [IdleAdminHandler EXCEPT !.kind = "load",
                                                               !.pc = "load"]
                                 ELSE IdleAdminHandler]

\* loadEvents / loadActivities from its await on: the mount effect's call, or
\* handleSubmit's call with the finally of handleSubmit behind it
loadRecordsReturn(h) ==
  /\ adminHandlers[h].pc = "load"
  /\ \E ok \in BOOLEAN :
       admin' = [admin EXCEPT
                   !.records = IF ok THEN getRecords ELSE @,
                   !.error = IF ok THEN @ ELSE "Failed to load",
                   !.isLoading = FALSE,
                   !.isSubmitting = IF adminHandlers[h].kind = "submit" THEN FALSE
                                                                        ELSE @]
  /\ adminHandlers' = [adminHandlers EXCEPT ![h].pc = "done"]
  /\ UNCHANGED <<page, recordTable, recordNextId, serviceVars, viewVars>>

\* handleCreate(), the click on "Add New"
handleCreate ==
  /\ ListAreaShown
  /\ admin' = [ResetForm(admin) EXCEPT !.isCreating = TRUE]
  /\ UNCHANGED <<page, recordTable, recordNextId, adminHandlers, serviceVars, viewVars>>

\* handleEdit(record), the click on a row's edit button: the form takes the
\* record's fields, which are filled in every stored record
handleEdit(id) ==
  /\ TableShown /\ id \in admin.records
  /\ \E d \in DisplayChoices :
       admin' = [admin EXCEPT
                   !.editRecord = id,
                   !.title = Text,
                   !.date = IF page = "events" THEN Text ELSE @,
                   !.time = IF page = "events" THEN Text ELSE @,
                   !.venue = IF page = "events" THEN Text ELSE @,
                   !.description = Text,
                   !.displayOn = d,
                   !.isCreating = FALSE]
  /\ UNCHANGED <<page, recordTable, recordNextId, adminHandlers, serviceVars, viewVars>>

\* the onChange of a text input of the form
setField(f, v) ==
  /\ FormShown /\ AdminIdle /\ f \in RequiredFields
  /\ admin' = [admin EXCEPT ![f] = v]
  /\ UNCHANGED <<page, recordTable, recordNextId, adminHandlers, serviceVars, viewVars>>

\* the onChange of the display_on select
setDisplayOn(d) ==
  /\ FormShown /\ AdminIdle
  /\ admin' = [admin EXCEPT !.displayOn = d]
  /\ UNCHANGED <<page, recordTable, recordNextId, adminHandlers, serviceVars, viewVars>>

\* handleImageChange with a file chosen
handleImageChange ==
  /\ FormShown /\ AdminIdle
  /\ admin' = [admin EXCEPT !.imageFile = TRUE]
  /\ UNCHANGED <<page, recordTable, recordNextId, adminHandlers, serviceVars, viewVars>>

\* resetForm(), the click on the form's X or Cancel button
resetForm ==
  /\ FormShown
  /\ admin' = ResetForm(admin)
  /\ UNCHANGED <<page, recordTable, recordNextId, adminHandlers, serviceVars, viewVars>>

\* (variant) only the title is required
handleSubmitTitleOnly(h) ==
  /\ FormShown /\ ~admin.isSubmitting
  /\ AdminFreeSlot(h)
  /\ IF admin.title = ""
       THEN /\ admin' = [admin EXCEPT !.error = "required"]
            /\ UNCHANGED adminHandlers
       ELSE /\ admin.editRecord = 0 =>
                 recordNextId + Cardinality(CreatesInFlight) <= MaxRecords
            /\ admin' = [admin EXCEPT !.isSubmitting = TRUE, !.error = NoMessage,
                                      !.successMessage = NoMessage]
            /\ adminHandlers' = [adminHandlers EXCEPT ![h] =
                                   [IdleAdminHandler EXCEPT !.kind = "submit",
                                                            !.pc = "save",
                                                            !.id = admin.editRecord]]
  /\ UNCHANGED <<page, recordTable, recordNextId, serviceVars, viewVars>>

\* handleSubmit, the form's submit event, up to its return on a missing field
\* or to its await of the create or update call; the submit button is
\* disabled while isSubmitting is set
handleSubmit(h) ==
  /\ FormShown /\ ~admin.isSubmitting
  /\ AdminFreeSlot(h)
  /\ IF MissingField(admin)
       THEN /\ admin' = [admin EXCEPT !.error = "required"]
            /\ UNCHANGED adminHandlers
       ELSE /\ admin.editRecord = 0 =>
                 recordNextId + Cardinality(CreatesInFlight) <= MaxRecords
            /\ admin' = [admin EXCEPT !.isSubmitting = TRUE, !.error = NoMessage,
                                      !.successMessage = NoMessage]
            /\ adminHandlers' = [adminHandlers EXCEPT ![h] =
                                   [IdleAdminHandler EXCEPT !.kind = "submit",
                                                            !.pc = "save",
                                                            !.id = admin.editRecord]]
  /\ UNCHANGED <<page, recordTable, recordNextId, serviceVars, viewVars>>

\* (variant) isSubmitting is cleared after the try block, not in a finally
submitReturnNoFinally(h) ==
  /\ adminHandlers[h].pc = "save"
  /\ \E ok \in BOOLEAN :
       LET hd == adminHandlers[h]
           create == hd.id = 0
           stored == ok /\ (create \/ RecordExists(hd.id)) IN
       /\ recordTable' = IF stored /\ create THEN createRecord ELSE recordTable
       /\ recordNextId' = IF stored /\ create THEN recordNextId + 1 ELSE recordNextId
       /\ admin' = IF stored
                     THEN [ResetForm(admin) EXCEPT
                             !.successMessage = IF create THEN "created" ELSE "updated",
                             !.isLoading = TRUE,
                             !.error = NoMessage]
                     ELSE [admin EXCEPT !.error = "Failed to save"]
       /\ adminHandlers' = [adminHandlers EXCEPT ![h] =
                              [hd EXCEPT !.pc = IF stored THEN "load" ELSE "done",
                                         !.failed = ~stored]]
  /\ UNCHANGED <<page, serviceVars, viewVars>>

\* handleSubmit from the result of the create or update call to its await
\* inside loadEvents / loadActivities, or through catch and finally to its end
submitReturn(h) ==
  /\ adminHandlers[h].pc = "save"
  /\ \E ok \in BOOLEAN :
       LET hd == adminHandlers[h]
           create == hd.id = 0
           stored == ok /\ (create \/ RecordExists(hd.id)) IN
       /\ recordTable' = IF stored /\ create THEN createRecord ELSE recordTable
       /\ recordNextId' = IF stored /\ create THEN recordNextId + 1 ELSE recordNextId
       /\ admin' = IF stored
                     THEN [ResetForm(admin) EXCEPT
                             !.successMessage = IF create THEN "created" ELSE "updated",
                             !.isLoading = TRUE,
                             !.error = NoMessage]
                     ELSE [admin EXCEPT !.error = "Failed to save",
                                        !.isSubmitting = FALSE]
       /\ adminHandlers' = [adminHandlers EXCEPT ![h] =
                              [hd EXCEPT !.pc = IF stored THEN "load" ELSE "done",
                                         !.failed = ~stored]]
  /\ UNCHANGED <<page, serviceVars, viewVars>>

\* handleDelete(record.id) of the page, the click on a row's delete button,
\* confirmed, up to its await of the delete call
handleRecordDelete(h, id) ==
  /\ AdminFreeSlot(h)
  /\ TableShown /\ id \in admin.records
  /\ admin' = [admin EXCEPT !.isSubmitting = TRUE]
  /\ adminHandlers' = [adminHandlers EXCEPT ![h] =
                         [IdleAdminHandler EXCEPT !.kind = "delete", !.pc = "delete",
                                                  !.id = id,
                                                  !.records = admin.records]]
  /\ UNCHANGED <<page, recordTable, recordNextId, serviceVars, viewVars>>

\* handleDelete of the page from the result of the delete call on
recordDeleteReturn(h) ==
  /\ adminHandlers[h].pc = "delete"
  /\ \E ok \in BOOLEAN :
       LET hd == adminHandlers[h]
           gone == ok /\ RecordExists(hd.id) IN
       /\ recordTable' = IF gone THEN deleteRecord(hd.id) ELSE recordTable
       /\ admin' = IF gone
                     THEN [admin EXCEPT !.records = hd.records \ {hd.id},
                                        !.successMessage = "deleted",
                                        !.isSubmitting = FALSE]
                     ELSE [admin EXCEPT !.error = "Failed to delete",
                                        !.isSubmitting = FALSE]
       /\ adminHandlers' = [adminHandlers EXCEPT ![h] =
                              [hd EXCEPT !.pc = "done", !.failed = ~gone]]
  /\ UNCHANGED <<page, recordNextId, serviceVars, viewVars>>

\* the handler has run to its end
AdminSettle(h) ==
  /\ adminHandlers[h].pc = "done"
  /\ adminHandlers' = [adminHandlers EXCEPT ![h] = IdleAdminHandler]
  /\ UNCHANGED <<page, recordTable, recordNextId, admin, serviceVars, viewVars>>

\* the editor works on the page that is open; no control but the form's
\* submit button is disabled while a handler awaits its request
AdminNext ==
  \/ \E h \in Handlers :
       \/ loadRecordsReturn(h)
       \/ handleSubmit(h)
       \/ submitReturn(h)
       \/ \E id \in RecordIds : handleRecordDelete(h, id)
       \/ recordDeleteReturn(h)
       \/ AdminSettle(h)
  \/ handleCreate
  \/ \E id \in RecordIds : handleEdit(id)
  \/ \E f \in RequiredFields, v \in {"", Text} : setField(f, v)
  \/ \E d \in DisplayChoices : setDisplayOn(d)
  \/ handleImageChange
  \/ resetForm

AdminSpec == AdminInit /\ [][AdminNext]_vars

(* ------------------------------ properties ------------------------------ *)

\* any admin page with the editor working on it: the Gallery page, the Events
\* page or the Activities page
ViewsInit == OverlapInit \/ AdminInit
ViewsNext == OverlapNext \/ AdminNext
ViewsSpec == ViewsInit /\ [][ViewsNext]_vars

\* the call of p has settled / has settled without throwing
Done(p, op) == call[p].op = op /\ call[p].pc = "done"
Returned(p, op) == Done(p, op) /\ call[p].err = ""

\* the object a stored image reference names: the path below the bucket's
\* public URL, query parameters dropped; a bare name names itself
ObjectOf(ref) ==
  LET clean == SplitFirst(ref, "?") IN
  IF Len(clean) > Len(BaseUrl) /\ SubSeq(clean, 1, Len(BaseUrl)) = BaseUrl
    THEN SubSeq(clean, Len(BaseUrl) + 1, Len(clean))
    ELSE clean

\* the record owned an image when the call was issued
OwnedImage(c) ==
  /\ HadRow(c)
  /\ ~Falsy(PreRow(c).image_path)
  /\ ObjectOf(PreRow(c).image_path) \in DOMAIN c.preBlobs

\* the object names uuidv4 has produced so far
GeneratedNames == { NewFilePath(k, f) : k \in 1..(nextUuid - 1), f \in Files }

\* C1: for a record that owns an image, in whatever form its reference is
\* stored, a delete that returns successfully leaves neither the row nor the
\* record's blob.
C1_DeleteLeavesNoOrphan ==
  \A p \in Procs :
    Returned(p, "delete") /\ OwnedImage(call[p]) =>
      /\ call[p].id \notin DOMAIN rows
      /\ ObjectOf(PreRow(call[p]).image_path) \notin DOMAIN blobs

\* C2: for a record that owns an image, an update with a new image that
\* returns successfully leaves the row naming a new object, distinct from the
\* previous one, and the previous blob is gone.
C2_UpdateReplacesImage ==
  \A p \in Procs :
    LET c == call[p] IN
    Returned(p, "update") /\ c.imageFile # NoFile /\ OwnedImage(c) =>
      /\ c.id \in DOMAIN rows
      /\ rows[c.id].image_path \in GeneratedNames
      /\ rows[c.id].image_path # PreRow(c).image_path
      /\ ObjectOf(rows[c.id].image_path) # ObjectOf(PreRow(c).image_path)
      /\ ObjectOf(PreRow(c).image_path) \notin DOMAIN blobs

\* C3: in an update with a new image the gateway steps come in the order
\* upload, row update, removal of the previous blob: no removal is issued
\* before the row update has succeeded.
C3_RemoveAfterRowUpdate ==
  \A p \in Procs :
    LET log == call[p].log IN
    call[p].op = "update" =>
      \A i \in 1..Len(log) :
        /\ log[i] \in {"remove", "remove failed"} =>
             \E j \in 1..(i - 1) : log[j] = "update"
        /\ log[i] \in {"update", "update failed"} /\ call[p].imageFile # NoFile =>
             \E j \in 1..(i - 1) : log[j] = "upload"

\* C4 as claimed: an update without a new image leaves the stored image
\* reference as it was, and no blob is uploaded or removed.
C4_UpdateKeepsImageRef ==
  \A p \in Procs :
    LET c == call[p] IN
    Returned(p, "update") /\ c.imageFile = NoFile =>
      /\ rows[c.id].image_path = PreRow(c).image_path
      /\ blobs = c.preBlobs

\* C4 as amended: an update without a new image changes only the given
\* fields of that row; the stored image reference stays as it was when the
\* fields carry no image reference and becomes the passed reference when
\* they carry one; no blob is uploaded or removed.
C4_UpdateWritesOnlyGivenFields ==
  \A p \in Procs :
    LET c == call[p] IN
    Returned(p, "update") /\ c.imageFile = NoFile =>
      /\ HadRow(c) /\ DOMAIN rows = DOMAIN c.preRows
      /\ \A i \in DOMAIN rows \ {c.id} : rows[i] = c.preRows[i]
      /\ rows[c.id].id = c.id
      /\ rows[c.id].title =
           IF c.fields.title = Absent THEN PreRow(c).title ELSE c.fields.title
      /\ rows[c.id].description =
           IF c.fields.description = Absent
             THEN PreRow(c).description ELSE c.fields.description
      /\ rows[c.id].display_on =
           IF c.fields.display_on = Absent
             THEN PreRow(c).display_on ELSE c.fields.display_on
      /\ rows[c.id].image_path =
           IF c.fields.image_path = Undefined
             THEN PreRow(c).image_path ELSE c.fields.image_path
      /\ blobs = c.preBlobs
      /\ c.log = <<"update">>

\* a record with an image had its title changed, no image and no image
\* reference passed
C4_Witness ==
  \E p \in Procs :
    /\ Returned(p, "update") /\ call[p].imageFile = NoFile
    /\ call[p].fields.image_path = Undefined /\ call[p].fields.title # Absent
    /\ OwnedImage(call[p])
    /\ rows[call[p].id].title # PreRow(call[p]).title

\* C5: when the upload fails, create and update throw the upload error and
\* have made no other request: the record table and the blob store are as
\* they were when the call was issued.
C5_UploadFailureLeavesStore ==
  \A p \in Procs :
    LET c == call[p] IN
    (\E i \in 1..Len(c.log) : c.log[i] = "upload failed") =>
      /\ c.pc = "done" /\ c.err = "upload"
      /\ c.log = <<"upload failed">>
      /\ rows = c.preRows
      /\ blobs = c.preBlobs

\* an update that names the previous image of an existing record failed at
\* its upload
C5_Witness ==
  \E p \in Procs :
    /\ Done(p, "update") /\ call[p].err = "upload"
    /\ OwnedImage(call[p]) /\ ~Falsy(call[p].fields.image_path)

\* C6: a create without an image (no file, no image reference in the fields)
\* followed by a get of the created id returns the submitted fields and an
\* empty image reference.
C6_CreateThenGet ==
  \A p \in Procs :
    LET c == call[p] IN
    Returned(p, "create") /\ c.imageFile = NoFile /\ c.fields.image_path = Undefined =>
      /\ c.id \in DOMAIN rows
      /\ c.id \notin DOMAIN c.preRows
      /\ GetResult(rows[c.id]).id = c.id
      /\ GetResult(rows[c.id]).title = c.fields.title
      /\ GetResult(rows[c.id]).description = c.fields.description
      /\ GetResult(rows[c.id]).display_on = c.fields.display_on
      /\ Falsy(GetResult(rows[c.id]).image_path)

C6_Witness ==
  \E p \in Procs :
    /\ Returned(p, "create") /\ call[p].imageFile = NoFile
    /\ call[p].fields.image_path = Undefined
    /\ call[p].fields.display_on = "home"

\* C7: every record with a non-empty image reference that list or get
\* returns carries an image URL without a query string.
C7_ReadUrlHasNoQuery ==
  \A p \in Procs :
    Returned(p, "list") \/ Returned(p, "get") =>
      \A r \in call[p].ret :
        ~Falsy(r.image_path) =>
          /\ ~Includes(r.image_path, "?")
          /\ Includes(r.image_path, StoreHost)

\* get returned a row whose stored reference carries a stale query
C7_Witness ==
  \E p \in Procs :
    /\ Returned(p, "get")
    /\ Includes(rows[call[p].id].image_path, "?")

\* C8: the image URL in the record that create or update returns is the one
\* get returns for that row.
C8_WriteReturnsWhatGetReturns ==
  \A p \in Procs :
    Returned(p, "create") \/ Returned(p, "update") =>
      \A r \in call[p].ret :
        r.image_path = GetResult(rows[r.id]).image_path

\* C9 as claimed: list and get change nothing, and the stored image
\* reference of a row is the value the row came with, or a generated object
\* name: whenever the reference of an existing row is written, it is a
\* generated object name.
C9_StoredRefGeneratedOrKept ==
  [][ /\ \A p \in Procs :
           call[p].op = "idle" /\ call'[p].op \in {"list", "get"} =>
             rows' = rows /\ blobs' = blobs
      /\ \A id \in DOMAIN rows' :
           \/ id \notin DOMAIN rows
           \/ rows'[id].image_path = rows[id].image_path
           \/ rows'[id].image_path \in GeneratedNames' ]_vars

\* C9 as amended: list and get change nothing, and whenever a row's stored
\* image reference is written (at insert or at update) it is a generated
\* object name, or the reference the caller passed in the fields, as passed,
\* or empty when none was passed: never the URL the service makes of it.
C9_StoredRefNeverNormalized ==
  [][ /\ \A p \in Procs :
           call[p].op = "idle" /\ call'[p].op \in {"list", "get"} =>
             rows' = rows /\ blobs' = blobs
      /\ \A id \in DOMAIN rows' :
           \/ id \in DOMAIN rows /\ rows'[id].image_path = rows[id].image_path
           \/ rows'[id].image_path \in GeneratedNames'
           \/ \E p \in Procs :
                /\ call[p].imageFile = NoFile
                /\ rows'[id].image_path =
                     IF call[p].fields.image_path = Undefined
                       THEN Null ELSE call[p].fields.image_path ]_vars

\* an update with a new image has written a generated name over a stored URL
\* and returned the URL made of that name
C9_Witness ==
  \E p \in Procs :
    /\ Returned(p, "update") /\ call[p].imageFile # NoFile
    /\ OwnedImage(call[p]) /\ Includes(PreRow(call[p]).image_path, StoreHost)
    /\ rows[call[p].id].image_path \in GeneratedNames
    /\ \E r \in call[p].ret : r.image_path # rows[call[p].id].image_path

\* C10: list with a display target returns exactly the rows whose target is
\* that target or 'both'; list without a filter returns every row.
C10_ListFilter ==
  \A p \in Procs :
    Returned(p, "list") =>
      { r.id : r \in call[p].ret } =
        IF call[p].displayOn = Absent
          THEN DOMAIN rows
          ELSE { i \in DOMAIN rows :
                   rows[i].display_on \in {call[p].displayOn, "both"} }

\* list("home") over a row it returns and a row of the other section
C10_Witness ==
  \E p \in Procs :
    /\ Returned(p, "list") /\ call[p].displayOn = "home"
    /\ \E r \in call[p].ret : rows[r.id].display_on = "both"
    /\ \E i \in DOMAIN rows : rows[i].display_on = "activities"

\* C11: a delete of an id that an earlier delete has removed fails at the
\* lookup, with the store's no-row error whenever the store answers the
\* lookup; it issues no blob removal and no row deletion, and leaves the table
\* and the bucket as they were when it was issued.
C11_SecondDeleteFailsAtLookup ==
  \A p \in Procs :
    LET c == call[p] IN
    (c.op = "delete" /\ c.id \in deleted /\ ~HadRow(c)) =>
      /\ c.pc \in {"d_select", "done"}
      /\ c.pc = "done" =>
           /\ c.err \in {"norow", "query"}
           /\ c.log = <<"select failed">>
           /\ rows = c.preRows
           /\ blobs = c.preBlobs

\* the second delete of an id has been answered with the no-row error
C11_Witness ==
  \E p \in Procs :
    /\ Done(p, "delete") /\ call[p].id \in deleted /\ ~HadRow(call[p])
    /\ call[p].err = "norow"

\* a gateway step the call has issued
Issued(c, step) == \E i \in 1..Len(c.log) : c.log[i] = step

\* C12: when the removal of the record's blob fails, delete throws that error
\* and issues no row deletion: the table and the bucket are as they were when
\* the call was issued, so the row and its blob are both still there.
C12_FailedRemovalAbortsDelete ==
  \A p \in Procs :
    LET c == call[p] IN
    (c.op = "delete" /\ Issued(c, "remove failed")) =>
      /\ c.pc = "done" /\ c.err = "storage"
      /\ c.log = <<"select", "remove failed">>
      /\ rows = c.preRows /\ blobs = c.preBlobs
      /\ c.id \in DOMAIN rows
      /\ OwnedImage(c) => ObjectOf(rows[c.id].image_path) \in DOMAIN blobs

\* a delete of a record that owns an image has thrown the removal's error
C12_Witness ==
  \E p \in Procs :
    /\ Done(p, "delete") /\ call[p].err = "storage"
    /\ OwnedImage(call[p])
    /\ ObjectOf(rows[call[p].id].image_path) \in DOMAIN blobs

\* C13: when the removal of the record's blob succeeds and the row deletion
\* then fails, delete throws and makes no compensating call; the row is still
\* there, and its image reference names a blob that no longer exists.
C13_FailedRowDeleteLeavesDangling ==
  \A p \in Procs :
    LET c == call[p] IN
    (c.op = "delete" /\ OwnedImage(c) /\ Issued(c, "delete failed")) =>
      /\ c.pc = "done" /\ c.err = "query"
      /\ c.log = <<"select", "remove", "delete failed">>
      /\ rows = c.preRows
      /\ ObjectOf(rows[c.id].image_path) \notin DOMAIN blobs

\* C14: in every reachable state, every row whose stored image reference is
\* non-empty refers to an object that exists in the bucket.
C14_StoredRefResolves ==
  \A id \in DOMAIN rows :
    ~Falsy(rows[id].image_path) =>
      ObjectOf(rows[id].image_path) \in DOMAIN blobs

\* C15: in an update with a new image, a failed removal of the previous blob
\* is not reported: the row update is the next request, the only error the
\* call can throw afterwards is the row update's, and when the row update is
\* stored the call returns the updated record.
C15_FailedRemovalNotReported ==
  \A p \in Procs :
    LET c == call[p] IN
    (c.op = "update" /\ Issued(c, "remove failed")) =>
      /\ c.imageFile # NoFile
      /\ \/ c.pc = "u_row" /\ c.err = "" /\ c.log = <<"upload", "remove failed">>
         \/ /\ c.pc = "done" /\ c.err = ""
            /\ c.log = <<"upload", "remove failed", "update">>
            /\ rows[c.id].image_path = c.filePath
            /\ c.ret = {[rows[c.id] EXCEPT !.image_path = getDirectUrl(c.filePath)]}
         \/ /\ c.pc = "done" /\ c.err \in {"query", "norow"}
            /\ c.log = <<"upload", "remove failed", "update failed">>

\* an update has returned its record although the removal of the previous
\* blob failed, and that blob is still in the bucket
C15_Witness ==
  \E p \in Procs :
    /\ Returned(p, "update") /\ Issued(call[p], "remove failed")
    /\ call[p].fields.image_path \in DOMAIN blobs
    /\ call[p].ret # {}

\* C16: the name create or update uploads under is freshly generated and is
\* the name of no object in the bucket, and an upload adds that one object:
\* every object that was in the bucket before still has the content it had.
C16_UploadNeverOverwrites ==
  \A p \in Procs :
    LET c == call[p] IN
    (c.op \in {"create", "update"} /\ c.imageFile # NoFile) =>
      /\ c.filePath \in GeneratedNames
      /\ c.filePath \notin DOMAIN c.preBlobs
      /\ c.pc \in {"c_upload", "u_upload"} => c.filePath \notin DOMAIN blobs
      /\ Issued(c, "upload") =>
           \A n \in DOMAIN c.preBlobs \cap DOMAIN blobs : blobs[n] = c.preBlobs[n]
      /\ (Issued(c, "upload") /\ c.filePath \in DOMAIN blobs) =>
           blobs[c.filePath] = TheFile(c).body

\* an upload into a bucket that already held a legacy object and an uploaded
\* one, both of which are still there
C16_Witness ==
  \E p \in Procs :
    /\ call[p].op \in {"create", "update"} /\ Issued(call[p], "upload")
    /\ LegacyName \in DOMAIN call[p].preBlobs
    /\ \E n \in GeneratedNames : n \in DOMAIN call[p].preBlobs
    /\ DOMAIN blobs = DOMAIN call[p].preBlobs \cup {call[p].filePath}

\* C17: when create has uploaded its image and the insert then fails, create
\* throws the insert's error and issues no removal: no row was added, and the
\* uploaded object stays in the bucket with no row referring to it.
C17_FailedInsertOrphansUpload ==
  \A p \in Procs :
    LET c == call[p] IN
    (c.op = "create" /\ c.imageFile # NoFile /\ Issued(c, "insert failed")) =>
      /\ c.pc = "done" /\ c.err = "query"
      /\ c.log = <<"upload", "insert failed">>
      /\ rows = c.preRows
      /\ c.filePath \in DOMAIN blobs /\ c.filePath \notin DOMAIN c.preBlobs
      /\ \A id \in DOMAIN rows :
           Falsy(rows[id].image_path) \/ ObjectOf(rows[id].image_path) # c.filePath

\* a create has thrown the insert's error after its upload was stored
C17_Witness ==
  \E p \in Procs :
    /\ Done(p, "create") /\ call[p].err = "query"
    /\ call[p].log = <<"upload", "insert failed">>
    /\ call[p].filePath \in DOMAIN blobs
    /\ rows # <<>>

\* C18: the deleteGalleryImage calls of a bulk delete are issued one at a
\* time in the order of the selection, each after the one before has been
\* answered; after a failed call no further id is attempted, and the records
\* deleted before it stay deleted.
C18_BulkDeleteOneAtATime ==
  \A h \in Handlers :
    LET hd == handlers[h]
        sel == hd.selectedImages IN
    hd.kind = "bulk" =>
      /\ Len(hd.log) <= 2 * Len(sel)
      /\ \A k \in 1..Len(sel) :
           /\ 2 * k - 1 <= Len(hd.log) => hd.log[2 * k - 1] = Started(sel[k])
           /\ 2 * k <= Len(hd.log) => hd.log[2 * k] \in {Deleted(sel[k]), Failed(sel[k])}
           /\ (2 * k < Len(hd.log)) => hd.log[2 * k] = Deleted(sel[k])
           /\ (2 * k <= Len(hd.log) /\ hd.log[2 * k] = Deleted(sel[k])) =>
                sel[k] \notin galleryTable
      /\ hd.pc = "bulk" => Len(hd.log) % 2 = 1
      /\ hd.pc = "done" =>
           /\ Len(hd.log) % 2 = 0
           /\ Len(hd.log) < 2 * Len(sel) => hd.log[Len(hd.log)] = Failed(sel[Len(hd.log) \div 2])

\* a bulk delete of three images, selected in another order than their ids,
\* has deleted the first, failed on the second and left the third alone
C18_Witness ==
  \E h \in Handlers :
    LET hd == handlers[h]
        sel == hd.selectedImages IN
    /\ hd.kind = "bulk" /\ hd.pc = "done" /\ Len(sel) = 3
    /\ sel[1] > sel[2]
    /\ hd.log = <<Started(sel[1]), Deleted(sel[1]), Started(sel[2]), Failed(sel[2])>>
    /\ sel[1] \notin galleryTable
    /\ {sel[2], sel[3]} \subseteq galleryTable

\* the ids a handler's deleteGalleryImage calls have deleted
DeletedBy(hd) == { i \in ImageIds : \E k \in 1..Len(hd.log) : hd.log[k] = Deleted(i) }

\* C19: once a bulk delete that failed partway has run to its end, neither the
\* displayed image list nor the selection holds an id whose record the bulk
\* delete has deleted.
C19_FailedBulkDeleteReconciles ==
  \A h \in Handlers :
    LET hd == handlers[h] IN
    (hd.kind = "bulk" /\ hd.pc = "done" /\ hd.log[Len(hd.log)] = Failed(hd.id)) =>
      \A i \in DeletedBy(hd) :
        i \notin gallery.images /\ ~IsSelected(gallery.selectedImages, i)

\* the handlers of the Gallery view that await a write request
WritesInFlight == { h \in Handlers : handlers[h].pc \in {"upload", "delete", "bulk"} }

\* C20: the view has at most one write request (upload, delete, bulk delete)
\* outstanding at any time: while one is awaited no control starts another.
C20_OneWriteInFlight == Cardinality(WritesInFlight) <= 1

\* C24: for a record that owns an image, in whatever form its reference is
\* stored, the name delete hands to remove is the name of the record's blob.
C24_DeleteRemovesUploadedName ==
  \A p \in Procs :
    LET c == call[p] IN
    (c.op = "delete" /\ OwnedImage(c)
       /\ (Issued(c, "remove") \/ Issued(c, "remove failed") \/ c.pc = "d_remove")) =>
      c.filename = ObjectOf(PreRow(c).image_path)

\* the value an update writes to a column, Absent when it leaves the column
WrittenValue(c, f) ==
  IF f = "image_path"
    THEN (IF c.filePath = Undefined THEN Absent ELSE c.filePath)
    ELSE c.fields[f]

\* C22: two updates of one record whose gateway steps interleave both settle
\* without a conflict error (an update throws only the error of a gateway
\* request of its own), and once both have written, every column the later
\* row update wrote holds its value, whatever the earlier one wrote there, and
\* every column it left alone holds what it found in the store.
C22_ConcurrentUpdatesLastWriteWins ==
  \A p \in Procs :
    /\ call[p].op = "update" =>
         /\ call[p].err \in {"", "upload", "query", "norow"}
         /\ call[p].err = "norow" => ~HasRow(call[p].id)
    /\ \A q \in Procs \ {p} :
         (Returned(p, "update") /\ Returned(q, "update")
            /\ call[p].id = call[q].id /\ q \in call[p].after) =>
           /\ p \notin call[q].after
           /\ \A f \in {"title", "description", "display_on", "image_path"} :
                rows[call[p].id][f] =
                  IF WrittenValue(call[p], f) # Absent
                    THEN WrittenValue(call[p], f)
                    ELSE call[p].found[f]

\* both admins have replaced the image of the same record; the row names the
\* image of the later row update and the earlier caller was returned another
C22_Witness ==
  \E p \in Procs : \E q \in Procs \ {p} :
    /\ Returned(p, "update") /\ Returned(q, "update")
    /\ call[p].id = call[q].id /\ q \in call[p].after
    /\ call[p].imageFile # NoFile /\ call[q].imageFile # NoFile
    /\ call[p].preRows = call[q].preRows
    /\ rows[call[p].id].image_path = call[p].filePath
    /\ call[q].filePath # call[p].filePath
    /\ call[q].fields.display_on = "home" /\ call[p].fields.display_on = Absent
    /\ PreRow(call[q]).display_on # "home"
    /\ rows[call[p].id].display_on = "home"

\* the images whose record a delete of the view has removed: the store gives
\* every upload a fresh id, so a record that left the table never comes back
DeleteSucceeded == (1..(galleryNextId - 1)) \ galleryTable

\* C23: once every single-image delete of the Gallery view has completed, the
\* displayed image list holds no image whose delete succeeded.
C23_CompletedDeletesNotDisplayed ==
  (\A h \in Handlers : handlers[h].pc # "delete") =>
     gallery.images \cap DeleteSucceeded = {}

\* C26: uploadSuccess and uploadError of the Gallery view are never both set.
C26_UploadSuccessExcludesError == ~(gallery.uploadSuccess /\ gallery.uploadError)

\* the values of the form's fields
FormFields(a) ==
  <<a.title, a.date, a.time, a.venue, a.description, a.displayOn, a.imageFile>>

\* what the list area of the Events or Activities page renders: nothing while
\* the form is open, the loader, the error (ActivitiesAdmin only), or the
\* records, as a table or as the "no records" line
DisplayedList ==
  IF ~ListAreaShown THEN <<"hidden">>
  ELSE IF admin.isLoading THEN <<"loader">>
  ELSE IF page = "activities" /\ admin.error # NoMessage THEN <<"error">>
  ELSE <<"records", admin.records>>

\* what the grid area of the Gallery page renders
DisplayedGrid ==
  IF gallery.isLoading THEN <<"loader">>
  ELSE IF gallery.error THEN <<"error">>
  ELSE <<"images", gallery.images>>

\* the step is handleSubmit of a form with a required field empty
SubmitsIncomplete == \E h \in Handlers : handleSubmit(h) /\ MissingField(admin)

\* C28: handleSubmit of the Events form with any of title, date, time, venue,
\* description empty, or of the Activities form with title or description
\* empty, sets the validation error and issues no create or update call; the
\* form's fields, the edit/create mode and the displayed list stay as they are.
C28_IncompleteFormRejected ==
  [][SubmitsIncomplete =>
       /\ admin'.error = "required"
       /\ adminHandlers' = adminHandlers
       /\ recordTable' = recordTable /\ recordNextId' = recordNextId
       /\ FormFields(admin') = FormFields(admin)
       /\ admin'.editRecord = admin.editRecord
       /\ admin'.isCreating = admin.isCreating
       /\ admin'.records = admin.records
       /\ DisplayedList' = DisplayedList]_vars

\* the Events form was submitted with the title filled in and the venue empty
C28_Witness ==
  /\ page = "events" /\ FormShown
  /\ admin.title = Text /\ admin.venue = ""
  /\ admin.error = "required"
  /\ AdminIdle

\* C25: in the Events and Activities views the error message and the success
\* message are never both set.
C25_ErrorExcludesSuccess ==
  AdminOpen => ~(admin.error # NoMessage /\ admin.successMessage # NoMessage)

\* no handler of the page awaits a request
GalleryQuiet == \A h \in Handlers : handlers[h].pc \in {"idle", "done"}
AdminQuiet == \A h \in Handlers : adminHandlers[h].pc \in {"idle", "done"}

\* C27: once no request of the open page is outstanding, its busy flags are
\* all false: isSubmitting and isLoading of the Events and Activities pages,
\* isLoading and isUploading of the Gallery page.
C27_BusyFlagsCleared ==
  /\ (page = "gallery" /\ GalleryQuiet) =>
        ~gallery.isLoading /\ ~gallery.isUploading
  /\ (AdminOpen /\ AdminQuiet) =>
        ~admin.isLoading /\ ~admin.isSubmitting

\* a handleSubmit whose create or update call failed has run to its end
C27_Witness ==
  /\ AdminOpen /\ AdminQuiet
  /\ \E h \in Handlers :
       /\ adminHandlers[h].kind = "submit"
       /\ adminHandlers[h].pc = "done"
       /\ adminHandlers[h].failed

\* the step ends a write call of the Events or Activities page in failure
AdminWriteFails(h) ==
  /\ adminHandlers[h].pc \in {"save", "delete"}
  /\ adminHandlers'[h].pc = "done" /\ adminHandlers'[h].failed

\* the step ends a write call of the Events or Activities page in success
AdminWriteSucceeds(h) ==
  /\ adminHandlers[h].pc \in {"save", "delete"}
  /\ adminHandlers'[h].pc # adminHandlers[h].pc /\ ~adminHandlers'[h].failed

\* the step ends a list call of the page in success
AdminLoadSucceeds(h) ==
  /\ adminHandlers[h].pc = "load" /\ adminHandlers'[h].pc = "done"
  /\ admin'.records = recordTable

\* C21: a failed create, update, delete or upload call of an admin view sets
\* the view's failure message and leaves the displayed list and the form's
\* fields as they were before it; the displayed records change only in a step
\* that ends a service call in success.
C21_FailedCallLeavesView ==
  [][/\ \A h \in Handlers :
          AdminWriteFails(h) =>
            /\ admin'.error # NoMessage
            /\ FormFields(admin') = FormFields(admin)
            /\ DisplayedList' = DisplayedList
     /\ \A h \in Handlers :
          (handlers[h].pc = "upload" /\ handlers'[h].pc = "done") =>
            /\ gallery'.uploadError
            /\ DisplayedGrid' = DisplayedGrid
     /\ \A h \in Handlers :
          (handlers[h].pc = "delete" /\ Len(handlers'[h].log) > 0
             /\ handlers'[h].log[Len(handlers'[h].log)] = Failed(handlers[h].id)) =>
            /\ handlers'[h].alert
            /\ DisplayedGrid' = DisplayedGrid
     /\ admin'.records # admin.records =>
          \E h \in Handlers : AdminWriteSucceeds(h) \/ AdminLoadSucceeds(h)
     /\ gallery'.images # gallery.images =>
          \E h \in Handlers :
            \/ handlers[h].pc = "load" /\ ~gallery'.error
            \/ handlers[h].pc = "delete" /\ ~handlers'[h].alert]_vars

====
